---- MODULE Spec2Model ----
(***************************************************************************)
(* A model of the Friends application: an anonymous identity per device,   *)
(* a `users` collection of profiles keyed by identity, an `albums`         *)
(* collection of media entries, the media uploader, and the three screens  *)
(* (home/onboarding, roster, album) that drive them.                       *)
(*                                                                         *)
(* Strings the code inspects character by character (name, dob) are        *)
(* sequences of one-character strings; strings the code only concatenates  *)
(* (URLs) are TLA+ strings.                                                *)
(***************************************************************************)
EXTENDS Integers, Sequences, FiniteSets, TLC

VARIABLES
    \* ---- hosted services, as seen from this device
    currentUser,      \* authentication.currentUser: a uid, or NoUser
    nextUid,          \* the next identity the auth service mints
    users,            \* `users` collection: document key -> profile
    albums,           \* `albums` collection: set of documents (with their ids)
    authEventDue,     \* the auth SDK owes the registered listener a notification
    \* ---- HomeScreen
    route,            \* "home" | "tabs" (router.replace)
    homePc,           \* position of checkUserStatus
    homeIsLoading,    \* useState isLoading
    needsOnboarding,  \* useState needsOnboarding
    launches,         \* number of app launches so far
    \* ---- OnboardingScreen
    name,             \* useState name
    dob,              \* useState dob
    onbIsLoading,     \* useState isLoading
    onbPc,            \* position of handleSubmit
    submitted,        \* the name/dob captured by the handleSubmit that is running or
                      \* was the last to succeed
    onbAlert,         \* the Alert currently shown by the onboarding screen
    submits,          \* number of handleSubmit invocations so far
    \* ---- callers of ensureAuthenticated
    callPc,           \* caller -> position inside ensureAuthenticated
    callReturned,     \* caller -> the uids its calls returned, oldest first
    \* ---- FriendsTab
    rosterUsers,      \* useState users
    rosterIsLoading,  \* useState isLoading
    rosterError,      \* useState error
    fetchPc,          \* position of fetchUsers
    rosterMounted,    \* "no" | "yes" | "gone": the roster screen's life
    rosterCurrentUID, \* useState currentUserUID
    authListening,    \* the onAuthStateChanged listener is attached
    \* ---- AlbumTab
    albumItems,       \* useState albumItems
    albCurrentUser,   \* useState currentUser
    albIsLoading,     \* useState isLoading
    isUploading,      \* useState isUploading
    fetchUserPc,      \* position of fetchCurrentUser
    fetchUid,         \* the uid fetchCurrentUser read at mount
    albMounted,       \* "no" | "yes" | "gone": the album screen's life
    subscribed,       \* the onSnapshot listener is attached
    snapshotDue,      \* the listener owes the view a snapshot
    delivered,        \* the documents of the last snapshot handed to the listener
    upPc,             \* position of uploadMedia
    upArgs,           \* uploadMedia's arguments (uri, type)
    upItem,           \* cloudinaryUrl / albumItem built by the running uploadMedia
    upLog,            \* the steps the latest uploadMedia started and saw succeed
    upAlert,          \* the Alert currently shown by the album screen
    nextUrl,          \* the next asset the media service stores
    nextAlbumId,      \* the next document id the database assigns
    \* ---- uploadMultipleToCloudinary
    batchFiles,       \* fileUris
    batchPc,          \* "idle" | "running" | "resolved" | "rejected"
    batchUploads,     \* per file: state of its uploadToCloudinary call
    batchResult,      \* the array the call resolved with
    batchError,       \* index of the upload whose error the call threw, or 0
    \* ---- getOptimizedImageUrl
    urlArgs,          \* publicId and transformations
    urlPc,            \* "call" | "done"
    urlResult         \* the returned string

backendVars == <<currentUser, nextUid, users, albums, authEventDue>>
homeVars    == <<route, homePc, homeIsLoading, needsOnboarding, launches>>
onbVars     == <<name, dob, onbIsLoading, onbPc, submitted, onbAlert, submits>>
authVars    == <<callPc, callReturned>>
rosterViewVars == <<rosterMounted, rosterCurrentUID, authListening>>
rosterVars  == <<rosterUsers, rosterIsLoading, rosterError, fetchPc, rosterViewVars>>
albumVars   == <<albumItems, albCurrentUser, albIsLoading, isUploading, fetchUserPc,
                 fetchUid, albMounted, subscribed, snapshotDue, delivered, upPc, upArgs,
                 upItem, upLog, upAlert, nextUrl, nextAlbumId>>
batchVars   == <<batchFiles, batchPc, batchUploads, batchResult, batchError>>
urlVars     == <<urlArgs, urlPc, urlResult>>

vars == <<backendVars, homeVars, onbVars, authVars, rosterVars, albumVars,
          batchVars, urlVars>>

\* what the home/onboarding flow never touches
notHome == <<authVars, rosterVars, albumVars, batchVars, urlVars>>

(***************************************************************************)
(* Bounds                                                                  *)
(***************************************************************************)
MaxNameLen  == 2     \* longest name typed into the form
MaxLaunches == 1     \* app launches after the first
MaxSubmits  == 2     \* presses of the onboarding button
MaxUid      == 2     \* identities the auth service mints
MaxCalls    == 2     \* calls of ensureAuthenticated per caller
MaxProfiles == 3     \* identities that may hold a profile in the roster
MaxFiles    == 3     \* files handed to uploadMultipleToCloudinary
MaxEntries  == 2     \* documents added to the albums collection
MaxUrls     == 2     \* assets the media service stores for the album
MaxTime     == 2     \* readings of Date.now()

NoUser == 0          \* getCurrentUserUID() === null
OtherUid == MaxUid + 1   \* the identity of a user of another device

FormChars == {" ", "a"}        \* the keys pressed in the onboarding form

StringsUpTo(S, n) == UNION {[1..k -> S] : k \in 0..n}

NameInputs == StringsUpTo(FormChars, MaxNameLen)

Date1 == <<"1","9","9","0","-","1","2","-","2","5">>
Date2 == <<"2","0","2","4","-","0","2","-","3","0">>

DobInputs == { <<>>,
               <<" ">>,
               Date1,
               Date2,
               Date1 \o <<" ">> }

(***************************************************************************)
(* String helpers: String.prototype.trim and the date regex                *)
(***************************************************************************)
IsSpace(c) == c = " "

IsDigit(c) == c \in {"0","1","2","3","4","5","6","7","8","9"}

RECURSIVE TrimStart(_)
TrimStart(s) ==
    IF s # <<>> /\ IsSpace(Head(s)) THEN TrimStart(Tail(s)) ELSE s

RECURSIVE TrimEnd(_)
TrimEnd(s) ==
    IF s # <<>> /\ IsSpace(s[Len(s)]) THEN TrimEnd(SubSeq(s, 1, Len(s) - 1)) ELSE s

Trim(s) == TrimEnd(TrimStart(s))

\* /^\d{4}-\d{2}-\d{2}$/.test(s)
DateRegexTest(s) ==
    /\ Len(s) = 10
    /\ \A i \in {1, 2, 3, 4, 6, 7, 9, 10} : IsDigit(s[i])
    /\ s[5] = "-"
    /\ s[8] = "-"

(***************************************************************************)
(* Hosted services                                                         *)
(***************************************************************************)
EmptyCollection == [k \in {} |-> 0]

\* db.collection(c).doc(key).set(data): full overwrite of the keyed document
SetDoc(coll, key, data) ==
    [k \in (DOMAIN coll) \cup {key} |-> IF k = key THEN data ELSE coll[k]]

DocExists(coll, key) == key \in DOMAIN coll

getCurrentUserUID == currentUser

\* ensureAuthenticated up to its first suspension: either it returns the
\* current uid, or it starts an anonymous sign-in.
EnsureAuthenticatedPc(after) ==
    IF getCurrentUserUID # NoUser THEN after ELSE "signin"

\* authentication.signInAnonymously() resolving for a request that was
\* started while no user was signed in: the service mints an identity and
\* the SDK makes it the current user and owes a registered auth listener a
\* notification.
SignInResolves ==
    /\ nextUid <= MaxUid
    /\ currentUser' = nextUid
    /\ nextUid' = nextUid + 1
    /\ authEventDue' = authListening

(***************************************************************************)
(* HomeScreen                                                              *)
(***************************************************************************)
\* no handleSubmit is running: nothing is captured
NoSubmission == [name |-> <<>>, dob |-> <<>>]

BlankForm ==
    /\ name' = <<>>
    /\ dob' = <<>>
    /\ onbIsLoading' = FALSE
    /\ onbPc' = "idle"
    /\ submitted' = NoSubmission
    /\ onbAlert' = "none"

\* The process is started again: component state is fresh, the identity and
\* the collections persist.
Launch ==
    /\ launches < MaxLaunches
    /\ homePc \in {"done"}
    /\ onbPc = "idle"
    /\ launches' = launches + 1
    /\ route' = "home"
    /\ homePc' = "mount"
    /\ homeIsLoading' = TRUE
    /\ needsOnboarding' = FALSE
    /\ BlankForm
    /\ UNCHANGED <<backendVars, submits>>
    /\ UNCHANGED notHome

\* useEffect: checkUserStatus() up to its first pending request
CheckUserStatus ==
    /\ homePc = "mount"
    /\ homePc' = EnsureAuthenticatedPc("get")
    /\ UNCHANGED <<backendVars, route, homeIsLoading, needsOnboarding, launches, onbVars>>
    /\ UNCHANGED notHome

HomeSignInOk ==
    /\ homePc = "signin"
    /\ SignInResolves
    /\ homePc' = "get"
    /\ UNCHANGED <<users, albums, route, homeIsLoading, needsOnboarding, launches, onbVars>>
    /\ UNCHANGED notHome

\* userDoc = await db.collection('users').doc(uid).get()
HomeGetOk ==
    /\ homePc = "get"
    /\ IF DocExists(users, currentUser)
         THEN route' = "tabs" /\ UNCHANGED needsOnboarding
         ELSE needsOnboarding' = TRUE /\ UNCHANGED route
    /\ homeIsLoading' = FALSE
    /\ homePc' = "done"
    /\ UNCHANGED <<backendVars, launches, onbVars>>
    /\ UNCHANGED notHome

\* catch: the sign-in or the read failed
HomeFail ==
    /\ homePc \in {"signin", "get"}
    /\ needsOnboarding' = TRUE
    /\ homeIsLoading' = FALSE
    /\ homePc' = "done"
    /\ UNCHANGED <<backendVars, route, launches, onbVars>>
    /\ UNCHANGED notHome

(***************************************************************************)
(* OnboardingScreen                                                        *)
(***************************************************************************)
OnboardingShown == route = "home" /\ ~homeIsLoading /\ needsOnboarding

\* The form can be used: it is on screen and no modal alert covers it.
FormUsable == OnboardingShown /\ onbAlert = "none"

SetName(n) ==
    /\ FormUsable
    /\ n # name
    /\ name' = n
    /\ UNCHANGED <<backendVars, homeVars, dob, onbIsLoading, onbPc, submitted, onbAlert, submits>>
    /\ UNCHANGED notHome

SetDob(d) ==
    /\ FormUsable
    /\ d # dob
    /\ dob' = d
    /\ UNCHANGED <<backendVars, homeVars, name, onbIsLoading, onbPc, submitted, onbAlert, submits>>
    /\ UNCHANGED notHome

DismissAlert ==
    /\ onbAlert # "none"
    /\ onbAlert' = "none"
    /\ UNCHANGED <<backendVars, homeVars, name, dob, onbIsLoading, onbPc, submitted, submits>>
    /\ UNCHANGED notHome

\* The alert handleSubmit raises for the input, "none" when the input passes.
ValidationAlertNoFormat(n, d) ==
    IF Trim(n) = <<>> THEN "name"
    ELSE IF Trim(d) = <<>> THEN "dob"
    ELSE "none"

ValidationAlert(n, d) ==
    IF Trim(n) = <<>> THEN "name"
    ELSE IF Trim(d) = <<>> THEN "dob"
    ELSE IF ~DateRegexTest(d) THEN "format"
    ELSE "none"

UserDataUntrimmed(uid, n, d) == [id |-> uid, name |-> n, dob |-> d]

UserData(uid, n, d) == [id |-> uid, name |-> Trim(n), dob |-> Trim(d)]

\* onPress of the submit button (disabled while isLoading)
HandleSubmit ==
    /\ FormUsable
    /\ ~onbIsLoading
    /\ submits < MaxSubmits
    /\ submits' = submits + 1
    /\ IF ValidationAlert(name, dob) # "none"
         THEN /\ onbAlert' = ValidationAlert(name, dob)
              /\ UNCHANGED <<onbIsLoading, onbPc, submitted>>
         ELSE /\ onbIsLoading' = TRUE
              /\ submitted' = [name |-> name, dob |-> dob]
              /\ onbPc' = EnsureAuthenticatedPc("set")
              /\ UNCHANGED onbAlert
    /\ UNCHANGED <<backendVars, homeVars, name, dob>>
    /\ UNCHANGED notHome

OnbSignInOk ==
    /\ onbPc = "signin"
    /\ SignInResolves
    /\ onbPc' = "set"
    /\ UNCHANGED <<users, albums, homeVars, name, dob, onbIsLoading, submitted, onbAlert, submits>>
    /\ UNCHANGED notHome

\* await db.collection('users').doc(uid).set(userData) resolves
OnbSetOk ==
    /\ onbPc = "set"
    /\ users' = SetDoc(users, currentUser,
                       UserData(currentUser, submitted.name, submitted.dob))
    /\ route' = "tabs"
    /\ onbIsLoading' = FALSE
    /\ onbPc' = "idle"
    /\ UNCHANGED <<currentUser, nextUid, albums, authEventDue, homePc, homeIsLoading,
                   needsOnboarding, launches, name, dob, submitted, onbAlert, submits>>
    /\ UNCHANGED notHome

\* catch: the sign-in or the write failed
OnbFail ==
    /\ onbPc \in {"signin", "set"}
    /\ onbAlert' = "save"
    /\ onbIsLoading' = FALSE
    /\ onbPc' = "idle"
    /\ submitted' = NoSubmission
    /\ UNCHANGED <<backendVars, homeVars, name, dob, submits>>
    /\ UNCHANGED notHome

(***************************************************************************)
(* The parts of the state at rest: a screen that is not mounted, a         *)
(* function that is not being called.                                      *)
(***************************************************************************)
NoProfile == [id |-> NoUser, name |-> <<>>, dob |-> <<>>]
NoItem    == [url |-> 0, uploaderName |-> <<>>, timestamp |-> 0, type |-> "none"]
NoArgs    == [uri |-> "none", type |-> "none"]

HomeAtRest ==
    /\ route = "tabs"
    /\ homePc = "done"
    /\ homeIsLoading = FALSE
    /\ needsOnboarding = FALSE
    /\ launches = 0
    /\ name = <<>>
    /\ dob = <<>>
    /\ onbIsLoading = FALSE
    /\ onbPc = "idle"
    /\ submitted = NoSubmission
    /\ onbAlert = "none"
    /\ submits = 0

AuthAtRest ==
    /\ callPc = <<>>
    /\ callReturned = <<>>

RosterAtRest ==
    /\ rosterUsers = <<>>
    /\ rosterIsLoading = TRUE
    /\ rosterError = "null"
    /\ fetchPc = "unmounted"
    /\ rosterMounted = "no"
    /\ rosterCurrentUID = NoUser
    /\ authListening = FALSE

AlbumAtRest ==
    /\ albumItems = <<>>
    /\ albCurrentUser = NoProfile
    /\ albIsLoading = TRUE
    /\ isUploading = FALSE
    /\ fetchUserPc = "unmounted"
    /\ fetchUid = NoUser
    /\ albMounted = "no"
    /\ subscribed = FALSE
    /\ snapshotDue = FALSE
    /\ delivered = <<>>
    /\ upPc = "idle"
    /\ upArgs = NoArgs
    /\ upItem = NoItem
    /\ upLog = <<>>
    /\ upAlert = "none"
    /\ nextUrl = 1
    /\ nextAlbumId = 1

BatchAtRest ==
    /\ batchFiles = <<>>
    /\ batchPc = "idle"
    /\ batchUploads = <<>>
    /\ batchResult = <<>>
    /\ batchError = 0

UrlAtRest ==
    /\ urlArgs = <<>>
    /\ urlPc = "idle"
    /\ urlResult = ""

(***************************************************************************)
(* Specification of the home/onboarding flow                               *)
(***************************************************************************)
OtherProfile == [id |-> OtherUid, name |-> <<"B">>, dob |-> Date1]

Init ==
    /\ currentUser = NoUser
    /\ nextUid = 1
    /\ users \in {EmptyCollection, SetDoc(EmptyCollection, OtherUid, OtherProfile)}
    /\ albums = {}
    /\ authEventDue = FALSE
    /\ route = "home"
    /\ homePc = "mount"
    /\ homeIsLoading = TRUE
    /\ needsOnboarding = FALSE
    /\ launches = 0
    /\ name = <<>>
    /\ dob = <<>>
    /\ onbIsLoading = FALSE
    /\ onbPc = "idle"
    /\ submitted = NoSubmission
    /\ onbAlert = "none"
    /\ submits = 0
    /\ AuthAtRest /\ RosterAtRest /\ AlbumAtRest /\ BatchAtRest /\ UrlAtRest

Next ==
    \/ Launch
    \/ CheckUserStatus
    \/ HomeSignInOk
    \/ HomeGetOk
    \/ HomeFail
    \/ \E n \in NameInputs : SetName(n)
    \/ \E d \in DobInputs : SetDob(d)
    \/ DismissAlert
    \/ HandleSubmit
    \/ OnbSignInOk
    \/ OnbSetOk
    \/ OnbFail

Spec == Init /\ [][Next]_vars

(***************************************************************************)
(* ensureAuthenticated under concurrent callers                            *)
(*                                                                         *)
(* Each caller is an async flow of the application that awaits             *)
(* ensureAuthenticated().  The SDK's signInAnonymously returns the signed-in*)
(* anonymous user when there is one at the time of the call; otherwise it  *)
(* asks the service for a new identity, which becomes the current user     *)
(* when the request resolves.                                              *)
(***************************************************************************)
Callers == {"home", "onboarding", "album"}

notAuth == <<homeVars, onbVars, rosterVars, albumVars, batchVars, urlVars>>

\* ensureAuthenticated(): const currentUID = getCurrentUserUID(); if set,
\* return it; else return await signInAnonymously()
AuthCall(c) ==
    /\ callPc[c] \in {"idle", "returned", "threw"}
    /\ Len(callReturned[c]) < MaxCalls
    /\ IF getCurrentUserUID # NoUser
         THEN /\ callPc' = [callPc EXCEPT ![c] = "returned"]
              /\ callReturned' = [callReturned EXCEPT ![c] = Append(@, getCurrentUserUID)]
         ELSE /\ callPc' = [callPc EXCEPT ![c] = "signin"]
              /\ UNCHANGED callReturned
    /\ UNCHANGED <<backendVars, notAuth>>

\* signInAnonymously(): return userCredential.user.uid
AuthSignInOk(c) ==
    /\ callPc[c] = "signin"
    /\ SignInResolves
    /\ callPc' = [callPc EXCEPT ![c] = "returned"]
    /\ callReturned' = [callReturned EXCEPT ![c] = Append(@, nextUid)]
    /\ UNCHANGED <<users, albums, notAuth>>

\* signInAnonymously(): catch, log, throw
AuthSignInFail(c) ==
    /\ callPc[c] = "signin"
    /\ callPc' = [callPc EXCEPT ![c] = "threw"]
    /\ UNCHANGED <<backendVars, callReturned, notAuth>>

InitAuth ==
    /\ currentUser = NoUser
    /\ nextUid = 1
    /\ users = EmptyCollection
    /\ albums = {}
    /\ authEventDue = FALSE
    /\ callPc = [c \in Callers |-> "idle"]
    /\ callReturned = [c \in Callers |-> <<>>]
    /\ HomeAtRest /\ RosterAtRest /\ AlbumAtRest /\ BatchAtRest /\ UrlAtRest

NextAuth ==
    \/ \E c \in Callers : AuthCall(c)
    \/ \E c \in Callers : AuthSignInOk(c)
    \/ \E c \in Callers : AuthSignInFail(c)

SpecAuth == InitAuth /\ [][NextAuth]_vars

\* C2 (as stated): any two calls of ensureAuthenticated in one device
\* session, with no sign-out between them, return the same identity, also
\* when the second starts before the first one's sign-in has completed.
C2_SameIdentityEveryCall ==
    \A c1, c2 \in Callers :
        \A i \in 1..Len(callReturned[c1]), j \in 1..Len(callReturned[c2]) :
            callReturned[c1][i] = callReturned[c2][j]

(***************************************************************************)
(* FriendsTab: the roster                                                  *)
(***************************************************************************)
RosterUids == 1..MaxProfiles

\* names other devices onboarded with
RosterNames == { <<"a">>, <<"A">>, <<"B">>, <<"a", "B">> }

notRoster == <<homeVars, onbVars, authVars, albumVars, batchVars, urlVars>>

\* Collation weights of String.prototype.localeCompare for the characters
\* in use: letters differ at the first level, case at the third (lower case
\* first), and a blank sorts before every letter.
PrimaryWeight(c) ==
    CASE c = " " -> 1
      [] c \in {"a", "A"} -> 2
      [] c \in {"b", "B"} -> 3

CaseWeight(c) == IF c \in {"A", "B"} THEN 1 ELSE 0

\* lexicographic comparison of two weight sequences: -1, 0 or 1
RECURSIVE CompareWeights(_, _)
CompareWeights(x, y) ==
    IF x = <<>> /\ y = <<>> THEN 0
    ELSE IF x = <<>> THEN -1
    ELSE IF y = <<>> THEN 1
    ELSE IF Head(x) < Head(y) THEN -1
    ELSE IF Head(x) > Head(y) THEN 1
    ELSE CompareWeights(Tail(x), Tail(y))

\* a.localeCompare(b)
localeCompare(a, b) ==
    LET pa == [i \in 1..Len(a) |-> PrimaryWeight(a[i])]
        pb == [i \in 1..Len(b) |-> PrimaryWeight(b[i])]
        ca == [i \in 1..Len(a) |-> CaseWeight(a[i])]
        cb == [i \in 1..Len(b) |-> CaseWeight(b[i])]
    IN  IF CompareWeights(pa, pb) # 0 THEN CompareWeights(pa, pb)
        ELSE CompareWeights(ca, cb)

\* usersSnapshot.forEach(doc => usersList.push(doc.data())): the documents
\* in the order of their keys
RECURSIVE SnapshotDocs(_, _)
SnapshotDocs(coll, keys) ==
    IF keys = {} THEN <<>>
    ELSE LET k == CHOOSE x \in keys : \A y \in keys : x <= y
         IN  <<coll[k]>> \o SnapshotDocs(coll, keys \ {k})

\* one step of the (stable) sort: put u after the last element not above it
RECURSIVE InsertByName(_, _)
InsertByName(sorted, u) ==
    IF sorted = <<>> THEN <<u>>
    ELSE IF localeCompare(sorted[Len(sorted)].name, u.name) <= 0
         THEN Append(sorted, u)
         ELSE Append(InsertByName(SubSeq(sorted, 1, Len(sorted) - 1), u),
                     sorted[Len(sorted)])

RECURSIVE SortFrom(_, _)
SortFrom(sorted, rest) ==
    IF rest = <<>> THEN sorted
    ELSE SortFrom(InsertByName(sorted, Head(rest)), Tail(rest))

Unsorted(list) == list

\* usersList.sort((a, b) => a.name.localeCompare(b.name))
SortUsers(list) == SortFrom(<<>>, list)

\* another device completes its onboarding
RemoteOnboard(u, n) ==
    /\ ~DocExists(users, u)
    /\ users' = SetDoc(users, u, UserData(u, n, Date1))
    /\ UNCHANGED <<currentUser, nextUid, albums, authEventDue, rosterVars, notRoster>>

FetchUsersOkIfMounted ==
    /\ fetchPc = "get"
    /\ rosterUsers' = IF rosterMounted = "yes"
                        THEN SortUsers(SnapshotDocs(users, DOMAIN users))
                        ELSE rosterUsers
    /\ rosterIsLoading' = IF rosterMounted = "yes" THEN FALSE ELSE rosterIsLoading
    /\ fetchPc' = "ok"
    /\ UNCHANGED <<backendVars, rosterError, rosterViewVars, notRoster>>

\* await db.collection('users').get() resolves
FetchUsersOk ==
    /\ fetchPc = "get"
    /\ rosterUsers' = SortUsers(SnapshotDocs(users, DOMAIN users))
    /\ rosterIsLoading' = FALSE
    /\ fetchPc' = "ok"
    /\ UNCHANGED <<backendVars, rosterError, rosterViewVars, notRoster>>

\* catch / finally
FetchUsersFail ==
    /\ fetchPc = "get"
    /\ rosterError' = "Failed to load friends"
    /\ rosterIsLoading' = FALSE
    /\ fetchPc' = "failed"
    /\ UNCHANGED <<backendVars, rosterUsers, rosterViewVars, notRoster>>

\* The roster screen has mounted: the auth listener is attached and has had
\* its first notification, fetchUsers has set isLoading, cleared the error
\* and issued its read.
InitRoster ==
    /\ currentUser = NoUser
    /\ nextUid = 1
    /\ users = EmptyCollection
    /\ albums = {}
    /\ authEventDue = FALSE
    /\ rosterUsers = <<>>
    /\ rosterIsLoading = TRUE
    /\ rosterError = "null"
    /\ fetchPc = "get"
    /\ rosterMounted = "yes"
    /\ rosterCurrentUID = getCurrentUserUID
    /\ authListening = TRUE
    /\ HomeAtRest /\ AuthAtRest /\ AlbumAtRest /\ BatchAtRest /\ UrlAtRest

NextRoster ==
    \/ \E u \in RosterUids, n \in RosterNames : RemoteOnboard(u, n)
    \/ FetchUsersOk
    \/ FetchUsersFail

SpecRoster == InitRoster /\ [][NextRoster]_vars

\* the elements of a sequence
Elements(list) == {list[i] : i \in 1..Len(list)}

\* C4: a roster fetch that succeeds returns exactly the profiles the users
\* collection holds at that moment, sorted non-decreasing by name under
\* locale comparison (ties included); with no profiles the list is empty;
\* the error stays null and isLoading becomes false.
C4_RosterSortedSnapshot ==
    [][(fetchPc = "get" /\ fetchPc' = "ok") =>
          /\ Elements(rosterUsers') = {users[k] : k \in DOMAIN users}
          /\ Len(rosterUsers') = Cardinality(DOMAIN users)
          /\ \A i, j \in 1..Len(rosterUsers') :
                 i < j => localeCompare(rosterUsers'[i].name, rosterUsers'[j].name) <= 0
          /\ (DOMAIN users = {} => rosterUsers' = <<>>)
          /\ rosterError' = "null"
          /\ rosterIsLoading' = FALSE]_vars

\* C4 witness: a fetched roster of three where two names tie and the
\* locale order differs from the code-unit order ("a" before "B").
C4_Witness ==
    /\ fetchPc = "ok"
    /\ Len(rosterUsers) = 3
    /\ rosterUsers[1].name = <<"a">>
    /\ rosterUsers[2].name = <<"a">>
    /\ rosterUsers[3].name = <<"B">>
    /\ rosterError = "null"
    /\ ~rosterIsLoading

(***************************************************************************)
(* FriendsTab: mount, the auth listener, unmount                           *)
(***************************************************************************)
\* renderUserItem: const isCurrentUser = item.id === currentUserUID
IsCurrentUser(item) == item.id = rosterCurrentUID

FetchUsersStarts ==
    /\ rosterIsLoading' = TRUE
    /\ rosterError' = "null"
    /\ fetchPc' = "get"

RosterMountWithoutInitialUid ==
    /\ rosterMounted = "no"
    /\ rosterMounted' = "yes"
    /\ authListening' = TRUE
    /\ authEventDue' = TRUE
    /\ rosterCurrentUID' = rosterCurrentUID
    /\ FetchUsersStarts
    /\ UNCHANGED <<currentUser, nextUid, users, albums, rosterUsers, notRoster>>

\* the screen mounts.  First effect: the auth listener is registered (the
\* SDK owes every new listener a first notification) and currentUserUID is
\* set from getCurrentUserUID(); second effect: fetchUsers() runs up to its
\* pending read.
RosterMount ==
    /\ rosterMounted = "no"
    /\ rosterMounted' = "yes"
    /\ authListening' = TRUE
    /\ authEventDue' = TRUE
    /\ rosterCurrentUID' = getCurrentUserUID
    /\ FetchUsersStarts
    /\ UNCHANGED <<currentUser, nextUid, users, albums, rosterUsers, notRoster>>

\* the listener's callback: setCurrentUserUID(user ? user.uid : null)
AuthStateChanged ==
    /\ authListening
    /\ authEventDue
    /\ rosterCurrentUID' = currentUser
    /\ authEventDue' = FALSE
    /\ UNCHANGED <<currentUser, nextUid, users, albums, rosterUsers, rosterIsLoading,
                   rosterError, fetchPc, rosterMounted, authListening, notRoster>>

RosterUnmountKeepsListener ==
    /\ rosterMounted = "yes"
    /\ rosterMounted' = "gone"
    /\ UNCHANGED <<backendVars, rosterUsers, rosterIsLoading, rosterError, fetchPc,
                   rosterCurrentUID, authListening, notRoster>>

\* the screen unmounts: the effect's cleanup calls unsubscribeAuth(); the
\* pending fetchUsers is left alone
RosterUnmount ==
    /\ rosterMounted = "yes"
    /\ rosterMounted' = "gone"
    /\ authListening' = FALSE
    /\ authEventDue' = FALSE
    /\ UNCHANGED <<currentUser, nextUid, users, albums, rosterUsers, rosterIsLoading,
                   rosterError, fetchPc, rosterCurrentUID, notRoster>>

(***************************************************************************)
(* End to end: first launch, onboarding, then the roster                   *)
(***************************************************************************)
InitEndToEnd == Init

NextEndToEnd ==
    \/ CheckUserStatus
    \/ HomeSignInOk
    \/ HomeGetOk
    \/ HomeFail
    \/ \E n \in NameInputs : SetName(n)
    \/ \E d \in DobInputs : SetDob(d)
    \/ DismissAlert
    \/ HandleSubmit
    \/ OnbSignInOk
    \/ OnbSetOk
    \/ OnbFail
    \/ (route = "tabs" /\ RosterMount)
    \/ AuthStateChanged
    \/ FetchUsersOk
    \/ FetchUsersFail

SpecEndToEnd == InitEndToEnd /\ [][NextEndToEnd]_vars

\* the roster has been fetched after an onboarding that succeeded
RosterFetchedAfterOnboarding == route = "tabs" /\ fetchPc = "ok"

\* C12 (as stated): after a successful onboarding of a fresh identity with
\* {name, dob}, a later roster fetch contains an entry with that name and
\* dob; the roster marks as current user exactly the entries whose id is
\* the current identity, so that entry is marked and no other.
C12_SubmittedNameListed ==
    RosterFetchedAfterOnboarding =>
        LET mine == [id |-> currentUser, name |-> submitted.name, dob |-> submitted.dob]
        IN  /\ \E i \in 1..Len(rosterUsers) : rosterUsers[i] = mine
            /\ \A i \in 1..Len(rosterUsers) :
                   /\ IsCurrentUser(rosterUsers[i]) <=> rosterUsers[i].id = currentUser
                   /\ IsCurrentUser(rosterUsers[i]) <=> rosterUsers[i] = mine

\* C12 (amended): after a successful onboarding of a fresh identity with
\* {name, dob}, a later roster fetch contains an entry with that name
\* stripped of leading and trailing blanks and that dob; the roster marks as
\* current user exactly the entries whose id is the current identity, so
\* that entry is marked and no other.
C12_TrimmedNameListed ==
    RosterFetchedAfterOnboarding =>
        LET mine == [id |-> currentUser, name |-> Trim(submitted.name),
                     dob |-> submitted.dob]
        IN  /\ \E i \in 1..Len(rosterUsers) : rosterUsers[i] = mine
            /\ \A i \in 1..Len(rosterUsers) :
                   /\ IsCurrentUser(rosterUsers[i]) <=> rosterUsers[i].id = currentUser
                   /\ IsCurrentUser(rosterUsers[i]) <=> rosterUsers[i] = mine

\* C12 witness: the name was typed with a blank around it, the roster lists
\* the new profile next to another user's, and marks only the new one.
C12_Witness ==
    /\ RosterFetchedAfterOnboarding
    /\ submitted.name # Trim(submitted.name)
    /\ Len(rosterUsers) = 2
    /\ \E i \in 1..2 : IsCurrentUser(rosterUsers[i]) /\ rosterUsers[i].id = currentUser
    /\ \E i \in 1..2 : ~IsCurrentUser(rosterUsers[i]) /\ rosterUsers[i].id = OtherUid

(***************************************************************************)
(* services/cloudinary: uploadToCloudinary, uploadMultipleToCloudinary     *)
(***************************************************************************)
notBatch == <<homeVars, onbVars, authVars, rosterVars, albumVars, urlVars>>

FileUris == {"file:a", "file:b"}
BatchUrls == {101, 102}      \* secure_url values the media service answers with

\* What fetch() produces: a rejection (network), or a response with its
\* ok flag and its JSON body (error.message, secure_url).
NetworkError == [network |-> TRUE, ok |-> FALSE, error |-> "", secure_url |-> 0]
HttpError    == [network |-> FALSE, ok |-> FALSE, error |-> "", secure_url |-> 0]
ServiceError == [network |-> FALSE, ok |-> TRUE, error |-> "Invalid preset", secure_url |-> 0]
Stored(u)    == [network |-> FALSE, ok |-> TRUE, error |-> "", secure_url |-> u]

BatchResponses == {NetworkError, HttpError, ServiceError} \cup {Stored(u) : u \in BatchUrls}

\* uploadToCloudinary after its request settles: throws, or returns
\* result.secure_url
UploadToCloudinaryResult(resp) ==
    IF resp.network THEN [threw |-> TRUE, url |-> 0]
    ELSE IF ~resp.ok THEN [threw |-> TRUE, url |-> 0]
    ELSE IF resp.error # "" THEN [threw |-> TRUE, url |-> 0]
    ELSE [threw |-> FALSE, url |-> resp.secure_url]

StartOneAtATime(files) ==
    [i \in 1..Len(files) |->
        [state |-> IF i = 1 THEN "pending" ELSE "notstarted", url |-> 0]]

\* fileUris.map(uri => uploadToCloudinary(uri, resourceType)): every call
\* runs up to its fetch before map returns
StartUploads(files) ==
    [i \in 1..Len(files) |-> [state |-> "pending", url |-> 0]]

AllFulfilled(uploads) == \A i \in 1..Len(uploads) : uploads[i].state = "ok"

FulfilledSoFar(uploads) ==
    LET RECURSIVE Keep(_)
        Keep(i) == IF i > Len(uploads) THEN <<>>
                   ELSE IF uploads[i].state = "ok" THEN <<uploads[i].url>> \o Keep(i + 1)
                   ELSE Keep(i + 1)
    IN  Keep(1)

PromiseAllPartial(pc, result, error, uploads, i) ==
    IF pc # "running" THEN [pc |-> pc, result |-> result, error |-> error]
    ELSE IF uploads[i].state = "failed"
         THEN [pc |-> "rejected", result |-> FulfilledSoFar(uploads), error |-> i]
    ELSE IF AllFulfilled(uploads)
         THEN [pc |-> "resolved",
               result |-> [j \in 1..Len(uploads) |-> uploads[j].url], error |-> 0]
    ELSE [pc |-> pc, result |-> result, error |-> error]

\* await Promise.all(uploadPromises) after upload i settled: it rejects with
\* the first rejection, resolves with all values in input order once all
\* are fulfilled, and is settled once.
PromiseAll(pc, result, error, uploads, i) ==
    IF pc # "running" THEN [pc |-> pc, result |-> result, error |-> error]
    ELSE IF uploads[i].state = "failed"
         THEN [pc |-> "rejected", result |-> <<>>, error |-> i]
    ELSE IF AllFulfilled(uploads)
         THEN [pc |-> "resolved",
               result |-> [j \in 1..Len(uploads) |-> uploads[j].url], error |-> 0]
    ELSE [pc |-> pc, result |-> result, error |-> error]

\* uploadMultipleToCloudinary(fileUris) is called
BatchCall ==
    /\ batchPc = "idle"
    /\ batchUploads' = StartUploads(batchFiles)
    /\ IF batchFiles = <<>>
         THEN batchPc' = "resolved"
         ELSE batchPc' = "running"
    /\ UNCHANGED <<backendVars, batchFiles, batchResult, batchError, notBatch>>

\* the request of upload i settles
BatchResponse(i, resp) ==
    /\ i \in 1..Len(batchUploads)
    /\ batchUploads[i].state = "pending"
    /\ LET r  == UploadToCloudinaryResult(resp)
           up == [batchUploads EXCEPT ![i] =
                     [state |-> IF r.threw THEN "failed" ELSE "ok", url |-> r.url]]
           o  == PromiseAll(batchPc, batchResult, batchError, up, i)
       IN  /\ batchUploads' = up
           /\ batchPc' = o.pc
           /\ batchResult' = o.result
           /\ batchError' = o.error
    /\ UNCHANGED <<backendVars, batchFiles, notBatch>>

InitBatch ==
    /\ currentUser = NoUser
    /\ nextUid = 1
    /\ users = EmptyCollection
    /\ albums = {}
    /\ authEventDue = FALSE
    /\ batchFiles \in UNION {[1..n -> FileUris] : n \in 0..MaxFiles}
    /\ batchPc = "idle"
    /\ batchUploads = <<>>
    /\ batchResult = <<>>
    /\ batchError = 0
    /\ HomeAtRest /\ AuthAtRest /\ RosterAtRest /\ AlbumAtRest /\ UrlAtRest

NextBatch ==
    \/ BatchCall
    \/ \E i \in 1..MaxFiles, resp \in BatchResponses : BatchResponse(i, resp)

SpecBatch == InitBatch /\ [][NextBatch]_vars

\* C5: with N files all N uploads are started before any is awaited; once
\* any upload has failed the call has failed with one error and yields no
\* URL for any file; when all succeed the call yields the N URLs in the
\* order of the input files.
C5_AllOrNothingBatch ==
    /\ batchPc # "idle" =>
           /\ Len(batchUploads) = Len(batchFiles)
           /\ \A i \in 1..Len(batchUploads) : batchUploads[i].state # "notstarted"
    /\ (\E i \in 1..Len(batchUploads) : batchUploads[i].state = "failed") =>
           /\ batchPc = "rejected"
           /\ batchResult = <<>>
           /\ batchError \in 1..Len(batchUploads)
           /\ batchUploads[batchError].state = "failed"
    /\ batchPc = "rejected" =>
           \E i \in 1..Len(batchUploads) : batchUploads[i].state = "failed"
    /\ (batchPc # "idle" /\ AllFulfilled(batchUploads)) =>
           /\ batchPc = "resolved"
           /\ Len(batchResult) = Len(batchFiles)
           /\ \A i \in 1..Len(batchFiles) : batchResult[i] = batchUploads[i].url

\* C5 witness: three files, the second failed, the other two stored.
C5_Witness ==
    /\ Len(batchFiles) = 3
    /\ Len(batchUploads) = 3
    /\ batchUploads[1].state = "ok"
    /\ batchUploads[2].state = "failed"
    /\ batchUploads[3].state = "ok"
    /\ batchPc = "rejected"
    /\ batchResult = <<>>

(***************************************************************************)
(* AlbumTab                                                                *)
(***************************************************************************)
notAlbum == <<homeVars, onbVars, authVars, rosterVars, batchVars, urlVars>>

Timestamps == 1..MaxTime
MediaTypes == {"image", "video"}
PickedUri  == "file:a"

\* the fields of a view's state other than those named
albumViewRest == <<albCurrentUser, fetchUserPc, fetchUid, albMounted>>
uploadState   == <<isUploading, upPc, upArgs, upItem, upLog, upAlert>>
feedState     == <<albumItems, albIsLoading, subscribed, snapshotDue, delivered>>

\* { id: doc.id, ...doc.data() }
AlbumItem(doc) ==
    [id |-> doc.id, url |-> doc.data.url, uploaderName |-> doc.data.uploaderName,
     timestamp |-> doc.data.timestamp, type |-> doc.data.type]

RECURSIVE InIdOrder(_)
InIdOrder(docs) ==
    IF docs = {} THEN <<>>
    ELSE LET d == CHOOSE x \in docs : \A y \in docs : x.id <= y.id
         IN  <<d>> \o InIdOrder(docs \ {d})

\* .orderBy('timestamp', 'desc'): newest first, equal timestamps by
\* document id in the same direction
RECURSIVE OrderByTimestampDesc(_)
OrderByTimestampDesc(docs) ==
    IF docs = {} THEN <<>>
    ELSE LET d == CHOOSE x \in docs : \A y \in docs :
                      \/ x.data.timestamp > y.data.timestamp
                      \/ x.data.timestamp = y.data.timestamp /\ x.id >= y.id
         IN  <<d>> \o OrderByTimestampDesc(docs \ {d})

AddDocReplacing(coll, id, data) == {[id |-> id, data |-> data]}

\* db.collection('albums').add(data): one more document, under a new id
AddDoc(coll, id, data) == coll \cup {[id |-> id, data |-> data]}

\* the screen mounts: fetchCurrentUser() starts and the listener is attached
AlbumMount ==
    /\ albMounted = "no"
    /\ fetchUserPc = "unmounted"
    /\ albMounted' = "yes"
    /\ fetchUid' = getCurrentUserUID
    /\ fetchUserPc' = IF getCurrentUserUID # NoUser THEN "get" ELSE "done"
    /\ subscribed' = TRUE
    /\ snapshotDue' = TRUE
    /\ UNCHANGED <<backendVars, albumItems, albCurrentUser, albIsLoading, delivered,
                   uploadState, nextUrl, nextAlbumId, notAlbum>>

\* userDoc = await db.collection('users').doc(uid).get() resolves
FetchCurrentUserOk ==
    /\ fetchUserPc = "get"
    /\ albCurrentUser' = IF DocExists(users, fetchUid) THEN users[fetchUid] ELSE albCurrentUser
    /\ fetchUserPc' = "done"
    /\ UNCHANGED <<backendVars, fetchUid, albMounted, feedState, uploadState, nextUrl,
                   nextAlbumId, notAlbum>>

FetchCurrentUserFail ==
    /\ fetchUserPc = "get"
    /\ fetchUserPc' = "done"
    /\ UNCHANGED <<backendVars, albCurrentUser, fetchUid, albMounted, feedState,
                   uploadState, nextUrl, nextAlbumId, notAlbum>>

\* the listener's first callback
OnSnapshot ==
    /\ subscribed
    /\ snapshotDue
    /\ delivered' = OrderByTimestampDesc(albums)
    /\ albumItems' = [i \in 1..Len(delivered') |-> AlbumItem(delivered'[i])]
    /\ albIsLoading' = FALSE
    /\ snapshotDue' = FALSE
    /\ UNCHANGED <<backendVars, subscribed, albumViewRest, uploadState, nextUrl,
                   nextAlbumId, notAlbum>>

\* the listener's second callback: the channel failed and the listener ends
OnSnapshotError ==
    /\ subscribed
    /\ albIsLoading' = FALSE
    /\ subscribed' = FALSE
    /\ snapshotDue' = FALSE
    /\ UNCHANGED <<backendVars, albumItems, delivered, albumViewRest, uploadState,
                   nextUrl, nextAlbumId, notAlbum>>

\* the upload button is on screen and enabled, and no alert covers it
CanPick ==
    /\ albMounted = "yes"
    /\ ~albIsLoading
    /\ ~isUploading
    /\ upPc = "idle"
    /\ upAlert = "none"

\* the steps of uploadMedia, in the order the code runs them
UploadSteps == <<"ensure", "ensure_ok", "upload", "upload_ok", "add", "add_ok">>

PickMediaUnguarded(type) ==
    /\ CanPick
    /\ isUploading' = TRUE
    /\ upArgs' = [uri |-> PickedUri, type |-> type]
    /\ upItem' = NoItem
    /\ upPc' = EnsureAuthenticatedPc("upload")
    /\ upLog' = IF getCurrentUserUID # NoUser
                   THEN SubSeq(UploadSteps, 1, 3)
                   ELSE SubSeq(UploadSteps, 1, 1)
    /\ UNCHANGED upAlert
    /\ UNCHANGED <<backendVars, albumViewRest, feedState, nextUrl, nextAlbumId, notAlbum>>

\* pickMedia -> uploadMedia(uri, type), up to its first pending request
PickMedia(type) ==
    /\ CanPick
    /\ IF albCurrentUser = NoProfile
         THEN /\ upAlert' = "profile"
              /\ UNCHANGED <<isUploading, upPc, upArgs, upItem, upLog>>
         ELSE /\ isUploading' = TRUE
              /\ upArgs' = [uri |-> PickedUri, type |-> type]
              /\ upItem' = NoItem
              /\ upPc' = EnsureAuthenticatedPc("upload")
              /\ upLog' = IF getCurrentUserUID # NoUser
                             THEN SubSeq(UploadSteps, 1, 3)
                             ELSE SubSeq(UploadSteps, 1, 1)
              /\ UNCHANGED upAlert
    /\ UNCHANGED <<backendVars, albumViewRest, feedState, nextUrl, nextAlbumId, notAlbum>>

UploadMediaCatchKeepsFlag ==
    /\ upAlert' = "error"
    /\ isUploading' = isUploading
    /\ upPc' = "idle"

\* catch { Alert.alert('Error', ...) } finally { setIsUploading(false) }
UploadMediaCatch ==
    /\ upAlert' = "error"
    /\ isUploading' = FALSE
    /\ upPc' = "idle"

UpSignInOk ==
    /\ upPc = "signin"
    /\ SignInResolves
    /\ upPc' = "upload"
    /\ upLog' = upLog \o SubSeq(UploadSteps, 2, 3)
    /\ UNCHANGED <<users, albums, albumViewRest, feedState, isUploading, upArgs, upItem,
                   upAlert, nextUrl, nextAlbumId, notAlbum>>

UpSignInFail ==
    /\ upPc = "signin"
    /\ UploadMediaCatch
    /\ UNCHANGED <<backendVars, albumViewRest, feedState, upArgs, upItem, upLog,
                   nextUrl, nextAlbumId, notAlbum>>

\* cloudinaryUrl = await uploadToCloudinary(uri, type) settles; on success
\* the album item is built (Date.now() = ts) and the write is issued
UpUploadSettles(resp, ts) ==
    /\ upPc = "upload"
    /\ LET r == UploadToCloudinaryResult(resp)
       IN  IF r.threw
             THEN /\ UploadMediaCatch
                  /\ UNCHANGED <<upItem, upLog, nextUrl>>
             ELSE /\ nextUrl <= MaxUrls
                  /\ nextUrl' = nextUrl + 1
                  /\ upItem' = [url |-> r.url, uploaderName |-> albCurrentUser.name,
                                timestamp |-> ts, type |-> upArgs.type]
                  /\ upPc' = "add"
                  /\ upLog' = upLog \o SubSeq(UploadSteps, 4, 5)
                  /\ UNCHANGED <<isUploading, upAlert>>
    /\ UNCHANGED <<backendVars, albumViewRest, feedState, upArgs, nextAlbumId, notAlbum>>

\* await db.collection('albums').add(albumItem) resolves
UpAddOk ==
    /\ upPc = "add"
    /\ nextAlbumId <= MaxEntries
    /\ albums' = AddDoc(albums, nextAlbumId, upItem)
    /\ nextAlbumId' = nextAlbumId + 1
    /\ snapshotDue' = subscribed
    /\ upAlert' = "success"
    /\ isUploading' = FALSE
    /\ upPc' = "idle"
    /\ upLog' = upLog \o SubSeq(UploadSteps, 6, 6)
    /\ UNCHANGED <<currentUser, nextUid, users, authEventDue, albumViewRest, albumItems,
                   albIsLoading, subscribed, delivered, upArgs, upItem, nextUrl, notAlbum>>

UpAddFail ==
    /\ upPc = "add"
    /\ UploadMediaCatch
    /\ UNCHANGED <<backendVars, albumViewRest, feedState, upArgs, upItem, upLog,
                   nextUrl, nextAlbumId, notAlbum>>

DismissAlbumAlert ==
    /\ upAlert # "none"
    /\ upAlert' = "none"
    /\ UNCHANGED <<backendVars, albumViewRest, feedState, isUploading, upPc, upArgs,
                   upItem, upLog, nextUrl, nextAlbumId, notAlbum>>

\* the name other devices upload under
RemoteUploader == <<"B">>

\* another device finishes an upload of its own
RemoteAdd(ts) ==
    /\ nextAlbumId <= MaxEntries
    /\ nextUrl <= MaxUrls
    /\ albums' = AddDoc(albums, nextAlbumId,
                        [url |-> nextUrl, uploaderName |-> RemoteUploader,
                         timestamp |-> ts, type |-> "image"])
    /\ nextAlbumId' = nextAlbumId + 1
    /\ nextUrl' = nextUrl + 1
    /\ snapshotDue' = (subscribed \/ snapshotDue)
    /\ UNCHANGED <<currentUser, nextUid, users, authEventDue, albumViewRest, albumItems,
                   albIsLoading, subscribed, delivered, uploadState, notAlbum>>

\* services/firebase signOut(): authentication.signOut() resolves
SignOut ==
    /\ currentUser # NoUser
    /\ currentUser' = NoUser
    /\ authEventDue' = authListening
    /\ UNCHANGED <<nextUid, users, albums, albumVars, notAlbum>>

AlbumResponses(n) == {NetworkError, HttpError, ServiceError, Stored(n)}

InitAlbum ==
    /\ currentUser \in {NoUser, 1}
    /\ nextUid = currentUser + 1
    /\ users \in {EmptyCollection, SetDoc(EmptyCollection, 1, UserData(1, <<"a">>, Date1))}
    /\ albums = {}
    /\ authEventDue = FALSE
    /\ HomeAtRest /\ AuthAtRest /\ RosterAtRest /\ AlbumAtRest /\ BatchAtRest /\ UrlAtRest

NextAlbum ==
    \/ AlbumMount
    \/ FetchCurrentUserOk
    \/ FetchCurrentUserFail
    \/ OnSnapshot
    \/ OnSnapshotError
    \/ \E type \in MediaTypes : PickMedia(type)
    \/ UpSignInOk
    \/ UpSignInFail
    \/ \E resp \in AlbumResponses(nextUrl), ts \in Timestamps : UpUploadSettles(resp, ts)
    \/ UpAddOk
    \/ UpAddFail
    \/ DismissAlbumAlert
    \/ \E ts \in Timestamps : RemoteAdd(ts)
    \/ SignOut

SpecAlbum == InitAlbum /\ [][NextAlbum]_vars

\* the step in which the listener hands a snapshot to the view
SnapshotDelivered == subscribed /\ snapshotDue /\ subscribed' /\ ~snapshotDue'

\* C3: every list the live subscription delivers is ordered by timestamp
\* descending and holds the entries of the albums collection, so its first
\* element has the greatest timestamp of all current entries; albumItems is
\* always the most recently delivered list.
C3_FeedNewestFirst ==
    [][/\ SnapshotDelivered =>
             /\ \A i, j \in 1..Len(delivered') :
                    i < j => delivered'[i].data.timestamp >= delivered'[j].data.timestamp
             /\ Elements(delivered') = albums'
             /\ Len(delivered') = Cardinality(albums')
             /\ delivered' # <<>> =>
                    \A e \in albums' : delivered'[1].data.timestamp >= e.data.timestamp
       /\ Len(albumItems') = Len(delivered')
       /\ \A i \in 1..Len(delivered') :
              /\ albumItems'[i].id = delivered'[i].id
              /\ albumItems'[i].url = delivered'[i].data.url
              /\ albumItems'[i].uploaderName = delivered'[i].data.uploaderName
              /\ albumItems'[i].timestamp = delivered'[i].data.timestamp
              /\ albumItems'[i].type = delivered'[i].data.type]_vars

\* C3 witness: the view shows two entries, the one added first carrying the
\* later timestamp, so the feed order is not the order of addition.
C3_Witness ==
    /\ Len(albumItems) = 2
    /\ albumItems[1].timestamp > albumItems[2].timestamp
    /\ albumItems[1].id < albumItems[2].id
    /\ Cardinality(albums) = 2

IsPrefix(a, b) == Len(a) <= Len(b) /\ a = SubSeq(b, 1, Len(a))

\* the step in which a running uploadMedia ends
UploadEnds == upPc # "idle" /\ upPc' = "idle"

\* C8: an upload action runs ensure-identity, media upload, record-entry in
\* that order, each started only after the one before succeeded; when a
\* step fails an error alert is shown and the action adds no album entry;
\* isUploading is false once the action has ended, however it ended.
C8_UploadStepsInOrder ==
    [][/\ IsPrefix(upLog', UploadSteps)
       /\ (upPc' = "signin" => upLog' = SubSeq(UploadSteps, 1, 1))
       /\ (upPc' = "upload" => upLog' = SubSeq(UploadSteps, 1, 3))
       /\ (upPc' = "add" => upLog' = SubSeq(UploadSteps, 1, 5))
       /\ (UploadEnds /\ upLog' # UploadSteps) =>
              /\ upAlert' = "error"
              /\ albums' = albums
              /\ \A e \in albums' : upItem'.url = 0 \/ e.data.url # upItem'.url
       /\ (UploadEnds /\ upLog' = UploadSteps) => upAlert' = "success"
       /\ (upPc' # "idle" => isUploading')
       /\ (upPc' = "idle" => ~isUploading')]_vars

\* C8 witness: the media upload succeeded, the write failed, the error
\* alert is up and the flag is reset.
C8_Witness ==
    /\ upPc = "idle"
    /\ upLog = SubSeq(UploadSteps, 1, 5)
    /\ upAlert = "error"
    /\ ~isUploading
    /\ upItem.url # 0

\* C10 (as stated): the albums collection only grows and no entry ever
\* changes; every successful uploadToCloudinary call of the album view is
\* followed by exactly one entry carrying the returned URL.
C10_EveryUploadRecorded ==
    [][/\ albums \subseteq albums'
       /\ (upPc = "add" /\ UploadEnds) =>
              Cardinality({e \in albums' : e.data.url = upItem.url}) = 1]_vars

\* C10 (amended): the albums collection only grows and no entry ever
\* changes; an upload action whose media upload and whose write both
\* succeed adds exactly one entry, carrying the returned URL; an action
\* whose write fails after a successful media upload adds none.
C10_EntriesOnlyAdded ==
    [][/\ albums \subseteq albums'
       /\ \A e \in albums' \ albums : \A x \in albums : x.id # e.id
       /\ (upPc = "add" /\ UploadEnds /\ upAlert' = "success") =>
              /\ Cardinality(albums' \ albums) = 1
              /\ Cardinality({e \in albums' : e.data.url = upItem.url}) = 1
              /\ \A e \in albums' \ albums : e.data = upItem
       /\ (upPc = "add" /\ UploadEnds /\ upAlert' # "success") =>
              /\ albums' = albums
              /\ \A e \in albums' : e.data.url # upItem.url]_vars

\* C10 witness: one upload of the view is recorded; a later one stored its
\* media but its write failed, so its URL is in no entry.
C10_Witness ==
    /\ upPc = "idle"
    /\ upLog = SubSeq(UploadSteps, 1, 5)
    /\ upItem.url # 0
    /\ \A e \in albums : e.data.url # upItem.url
    /\ \E e \in albums : e.data.uploaderName = <<"a">>

\* the step in which fetchCurrentUser ends without loading a profile that
\* the users collection holds for its uid: its read was rejected
ProfileReadFailed ==
    /\ fetchUserPc = "get"
    /\ fetchUserPc' = "done"
    /\ DocExists(users, fetchUid)
    /\ albCurrentUser' = NoProfile

\* the step in which the live query reports an error to a mounted view
FeedFailed == albMounted = "yes" /\ albMounted' = "yes" /\ subscribed /\ ~subscribed'

\* the step in which uploadMedia ends in its catch block
UploadFailed == UploadEnds /\ upLog' # UploadSteps

\* C11 (as stated), for the album screen: every failure of one of its async
\* requests (profile read, live query, upload action) is turned into a
\* user-facing alert, and no failed request is issued again unless the user
\* acts again: the profile read is never reissued and an upload only starts
\* from a press of the enabled upload button.  (The album screen has no
\* error flag in its state; the alert is the only signal it could give.)
C11_FailuresSurfaced ==
    [][/\ (ProfileReadFailed \/ FeedFailed \/ UploadFailed) => upAlert' = "error"
       /\ (fetchUserPc = "done" => fetchUserPc' = "done")
       /\ (UploadFailed => upPc' = "idle")
       /\ ((upPc = "idle" /\ upPc' # "idle") => CanPick)]_vars

\* C15: while the album view has no loaded profile (its profile read is
\* pending, failed, found no document, or there was no identity at mount),
\* an upload action is refused: the only alert that can come up is the
\* profile alert, isUploading stays false, and the view issues no sign-in,
\* no media upload and no album write; so every entry the view writes
\* carries as uploaderName the name of the profile it loaded at mount.
C15_NoProfileNoUpload ==
    [][/\ albCurrentUser = NoProfile =>
              /\ upPc' = "idle"
              /\ ~isUploading'
              /\ upLog' = <<>>
              /\ nextUid' = nextUid
              /\ \A e \in albums' \ albums : e.data.uploaderName = RemoteUploader
              /\ (upAlert' # upAlert => (upAlert' = "profile" \/ upAlert = "profile"))
       /\ (albCurrentUser = NoProfile /\ CanPick /\ upAlert' # upAlert) =>
              /\ upAlert' = "profile"
              /\ UNCHANGED <<backendVars, isUploading, upPc, upLog, nextUrl, nextAlbumId>>
       /\ (upPc = "add" /\ UploadEnds /\ upAlert' = "success") =>
              /\ albCurrentUser # NoProfile
              /\ albCurrentUser = users[fetchUid]
              /\ \A e \in albums' \ albums :
                     e.data.uploaderName = albCurrentUser.name]_vars

\* C15 witness: the profile read is still pending, the feed has loaded, the
\* user picked a file and was refused with the profile alert.
C15_Witness ==
    /\ albMounted = "yes"
    /\ fetchUserPc = "get"
    /\ DocExists(users, fetchUid)
    /\ albCurrentUser = NoProfile
    /\ upAlert = "profile"
    /\ upPc = "idle"
    /\ ~isUploading
    /\ upLog = <<>>
    /\ albums = {}

(***************************************************************************)
(* The two tab screens through their lives: mounted once, unmounted once   *)
(***************************************************************************)
AlbumUnmountKeepsListener ==
    /\ albMounted = "yes"
    /\ albMounted' = "gone"
    /\ UNCHANGED <<backendVars, albumItems, albCurrentUser, albIsLoading, fetchUserPc,
                   fetchUid, subscribed, snapshotDue, delivered, uploadState, nextUrl,
                   nextAlbumId, notAlbum>>

\* the screen unmounts: the effect's cleanup calls unsubscribe(); the pending
\* fetchCurrentUser and uploadMedia are left alone
AlbumUnmount ==
    /\ albMounted = "yes"
    /\ albMounted' = "gone"
    /\ subscribed' = FALSE
    /\ snapshotDue' = FALSE
    /\ UNCHANGED <<backendVars, albumItems, albCurrentUser, albIsLoading, fetchUserPc,
                   fetchUid, delivered, uploadState, nextUrl, nextAlbumId, notAlbum>>

OwnProfile == UserData(1, <<"a">>, Date1)

\* the clock does not matter to a screen's life: Date.now() reads the same
FirstReading == CHOOSE t \in Timestamps : \A u \in Timestamps : t <= u

\* a signed-in, onboarded user opens the tabs
InitViews ==
    /\ currentUser = 1
    /\ nextUid = 2
    /\ users = SetDoc(SetDoc(EmptyCollection, 1, OwnProfile), OtherUid, OtherProfile)
    /\ albums = {}
    /\ authEventDue = FALSE
    /\ HomeAtRest /\ AuthAtRest /\ RosterAtRest /\ AlbumAtRest /\ BatchAtRest /\ UrlAtRest

NextViews ==
    \/ RosterMount
    \/ AuthStateChanged
    \/ FetchUsersOk
    \/ FetchUsersFail
    \/ RosterUnmount
    \/ AlbumMount
    \/ FetchCurrentUserOk
    \/ FetchCurrentUserFail
    \/ OnSnapshot
    \/ OnSnapshotError
    \/ PickMedia("image")
    \/ UpSignInOk
    \/ UpSignInFail
    \/ \E resp \in {NetworkError, Stored(nextUrl)} : UpUploadSettles(resp, FirstReading)
    \/ UpAddOk
    \/ UpAddFail
    \/ DismissAlbumAlert
    \/ RemoteAdd(FirstReading)
    \/ AlbumUnmount
    \/ SignOut

SpecViews == InitViews /\ [][NextViews]_vars

\* C13: a roster view holds its identity-change listener, and an album view
\* its live album query, from mount to unmount, one per mount (the album
\* query is attached at least until its first callback); once a view has
\* unmounted the subscription is released: its callback is never invoked
\* again and the state it feeds (currentUserUID; albumItems, isLoading)
\* never changes.
C13_SubscriptionsReleased ==
    [][/\ (authListening' <=> rosterMounted' = "yes")
       /\ ((~authListening /\ authListening') => (rosterMounted = "no"))
       /\ (subscribed' => albMounted' = "yes")
       /\ ((albMounted' = "yes" /\ albIsLoading') => subscribed')
       /\ ((~subscribed /\ subscribed') => (albMounted = "no"))
       /\ (rosterMounted = "gone" =>
              /\ rosterMounted' = "gone"
              /\ ~(authListening /\ authEventDue)
              /\ rosterCurrentUID' = rosterCurrentUID)
       /\ (albMounted = "gone" =>
              /\ albMounted' = "gone"
              /\ ~(subscribed /\ snapshotDue)
              /\ albumItems' = albumItems
              /\ delivered' = delivered
              /\ albIsLoading' = albIsLoading)]_vars

\* C13 witness: both views have unmounted; since then the identity changed and
\* the albums collection grew, and neither view was told.
C13_Witness ==
    /\ rosterMounted = "gone"
    /\ albMounted = "gone"
    /\ rosterCurrentUID # currentUser
    /\ albums # {}
    /\ albumItems = <<>>
    /\ ~albIsLoading

\* C14: unmounting a view aborts none of its pending requests (roster fetch,
\* current-profile fetch, upload), and a request that completes after the
\* unmount still applies its state update: setUsers/setIsLoading (or
\* setError), setCurrentUser, setIsUploading; an upload that completes after
\* the unmount still adds its album entry.
C14_PendingWorkSurvivesUnmount ==
    [][/\ (rosterMounted = "yes" /\ rosterMounted' = "gone") => fetchPc' = fetchPc
       /\ (albMounted = "yes" /\ albMounted' = "gone") =>
              /\ fetchUserPc' = fetchUserPc
              /\ UNCHANGED uploadState
       /\ (rosterMounted = "gone" /\ fetchPc = "get" /\ fetchPc' = "ok") =>
              /\ rosterUsers' = SortUsers(SnapshotDocs(users, DOMAIN users))
              /\ ~rosterIsLoading'
       /\ (rosterMounted = "gone" /\ fetchPc = "get" /\ fetchPc' = "failed") =>
              /\ rosterError' = "Failed to load friends"
              /\ ~rosterIsLoading'
       /\ (albMounted = "gone" /\ fetchUserPc = "get" /\ fetchUserPc' = "done") =>
              albCurrentUser' \in {albCurrentUser, users[fetchUid]}
       /\ (albMounted = "gone" /\ UploadEnds) => ~isUploading'
       /\ (albMounted = "gone" /\ upPc = "add" /\ UploadEnds /\ upAlert' = "success") =>
              albums' = AddDoc(albums, nextAlbumId, upItem)]_vars
    /\ [](/\ (rosterMounted = "gone" /\ fetchPc = "get") => ENABLED FetchUsersOk
          /\ (albMounted = "gone" /\ fetchUserPc = "get") => ENABLED FetchCurrentUserOk
          /\ (albMounted = "gone" /\ upPc = "add" /\ nextAlbumId <= MaxEntries) =>
                 ENABLED UpAddOk)

\* C14 witness: both views have unmounted with the roster fetch and an
\* upload's album write still pending.
C14_Witness ==
    /\ rosterMounted = "gone"
    /\ fetchPc = "get"
    /\ albMounted = "gone"
    /\ upPc = "add"
    /\ isUploading

(***************************************************************************)
(* services/cloudinary: getOptimizedImageUrl                               *)
(***************************************************************************)
notUrl == <<homeVars, onbVars, authVars, rosterVars, albumVars, batchVars>>

CLOUD_NAME == "your-cloud-name"

\* JavaScript values of the transformation fields
Undefined == [t |-> "undefined", n |-> 0, s |-> ""]
Num(k)    == [t |-> "number", n |-> k, s |-> ""]
Str(x)    == [t |-> "string", n |-> 0, s |-> x]

\* `${v}`
TemplateString(v) == IF v.t = "number" THEN ToString(v.n) ELSE v.s

IsPresent(v) == v.t # "undefined"

\* if (v): 0 and "" are falsy, like undefined
IsTruthy(v) == (v.t = "number" /\ v.n # 0) \/ (v.t = "string" /\ v.s # "")

RECURSIVE Join(_, _)
Join(list, sep) ==
    IF list = <<>> THEN ""
    ELSE IF Len(list) = 1 THEN list[1]
    ELSE list[1] \o sep \o Join(Tail(list), sep)

NoTransformations ==
    [given |-> FALSE, width |-> Undefined, height |-> Undefined,
     quality |-> Undefined, format |-> Undefined, crop |-> Undefined]

TransformationInputs ==
    {NoTransformations} \cup
    [given : {TRUE},
     width : {Undefined, Num(0), Num(200)},
     height : {Undefined, Num(100)},
     quality : {Undefined, Str("auto"), Num(80)},
     format : {Undefined, Str("webp")},
     crop : {Undefined, Str("fill")}]

PublicIds == {"abc123"}

\* transforms.push(...) when the condition holds
PushIf(list, cond, segment) == IF cond THEN Append(list, segment) ELSE list

getOptimizedImageUrlSlashJoined(publicId, tr) ==
    LET t1 == PushIf(<<>>, IsTruthy(tr.width), "w_" \o TemplateString(tr.width))
        t2 == PushIf(t1, IsTruthy(tr.height), "h_" \o TemplateString(tr.height))
        t3 == PushIf(t2, IsTruthy(tr.quality), "q_" \o TemplateString(tr.quality))
        t4 == PushIf(t3, IsTruthy(tr.format), "f_" \o TemplateString(tr.format))
        transforms == PushIf(t4, IsTruthy(tr.crop), "c_" \o TemplateString(tr.crop))
        transformString ==
            IF tr.given /\ Len(transforms) > 0 THEN "/" \o Join(transforms, "/") ELSE ""
    IN  "https://res.cloudinary.com/" \o CLOUD_NAME \o "/image/upload"
            \o transformString \o "/" \o publicId

getOptimizedImageUrl(publicId, tr) ==
    LET t1 == PushIf(<<>>, IsTruthy(tr.width), "w_" \o TemplateString(tr.width))
        t2 == PushIf(t1, IsTruthy(tr.height), "h_" \o TemplateString(tr.height))
        t3 == PushIf(t2, IsTruthy(tr.quality), "q_" \o TemplateString(tr.quality))
        t4 == PushIf(t3, IsTruthy(tr.format), "f_" \o TemplateString(tr.format))
        transforms == PushIf(t4, IsTruthy(tr.crop), "c_" \o TemplateString(tr.crop))
        transformString ==
            IF tr.given /\ Len(transforms) > 0 THEN "/" \o Join(transforms, ",") ELSE ""
    IN  "https://res.cloudinary.com/" \o CLOUD_NAME \o "/image/upload"
            \o transformString \o "/" \o publicId

UrlCall ==
    /\ urlPc = "call"
    /\ urlResult' = getOptimizedImageUrl(urlArgs.publicId, urlArgs.transformations)
    /\ urlPc' = "done"
    /\ UNCHANGED <<backendVars, urlArgs, notUrl>>

InitUrl ==
    /\ currentUser = NoUser
    /\ nextUid = 1
    /\ users = EmptyCollection
    /\ albums = {}
    /\ authEventDue = FALSE
    /\ urlArgs \in [publicId : PublicIds, transformations : TransformationInputs]
    /\ urlPc = "call"
    /\ urlResult = ""
    /\ HomeAtRest /\ AuthAtRest /\ RosterAtRest /\ AlbumAtRest /\ BatchAtRest

NextUrl == UrlCall

SpecUrl == InitUrl /\ [][NextUrl]_vars

\* The URL the claim describes: one segment per option that `applies`, in
\* the order width, height, quality, format, crop, joined by commas.
UrlWithSegmentsFor(Applies(_), publicId, tr) ==
    LET options == << [prefix |-> "w_", v |-> tr.width],
                      [prefix |-> "h_", v |-> tr.height],
                      [prefix |-> "q_", v |-> tr.quality],
                      [prefix |-> "f_", v |-> tr.format],
                      [prefix |-> "c_", v |-> tr.crop] >>
        kept == SelectSeq(options, LAMBDA o : Applies(o.v))
        segments == [i \in 1..Len(kept) |-> kept[i].prefix \o TemplateString(kept[i].v)]
        base == "https://res.cloudinary.com/your-cloud-name/image/upload"
    IN  IF kept = <<>> THEN base \o "/" \o publicId
        ELSE base \o "/" \o Join(segments, ",") \o "/" \o publicId

ExampleTransformations ==
    [given |-> TRUE, width |-> Num(200), height |-> Undefined,
     quality |-> Str("auto"), format |-> Undefined, crop |-> Undefined]

\* C6 (as stated): the URL carries one segment per option present in the
\* options, whatever its value.
C6_SegmentPerPresentOption ==
    urlPc = "done" =>
        urlResult = UrlWithSegmentsFor(IsPresent, urlArgs.publicId, urlArgs.transformations)

\* C6 (amended): the URL carries one segment per option that is present
\* with a truthy value (a number other than 0, a non-empty string), in the
\* order width, height, quality, format, crop, comma-joined; with no such
\* option there is no transform segment; ("abc123", {width: 200, quality:
\* "auto"}) gives .../image/upload/w_200,q_auto/abc123.
C6_SegmentPerTruthyOption ==
    urlPc = "done" =>
        /\ urlResult = UrlWithSegmentsFor(LAMBDA v : v.t # "undefined" /\ v # Num(0) /\ v # Str(""),
                                          urlArgs.publicId, urlArgs.transformations)
        /\ (urlArgs = [publicId |-> "abc123", transformations |-> ExampleTransformations] =>
               urlResult = "https://res.cloudinary.com/your-cloud-name/image/upload/w_200,q_auto/abc123")

\* C6 witness: the spec's example has been computed.
C6_Witness ==
    /\ urlPc = "done"
    /\ urlArgs = [publicId |-> "abc123", transformations |-> ExampleTransformations]
    /\ urlResult = "https://res.cloudinary.com/your-cloud-name/image/upload/w_200,q_auto/abc123"

(***************************************************************************)
(* Properties of the home/onboarding flow                                  *)
(***************************************************************************)
\* The step in which a running handleSubmit sees its write succeed.
SubmitSucceeds == onbPc = "set" /\ route' = "tabs"

\* C1 (as stated): a successful onboarding submission leaves one profile
\* document keyed by the caller's identity whose id, name and dob are the
\* identity and the name and date exactly as submitted.
C1_ExactValuesStored ==
    [][SubmitSucceeds =>
          /\ DocExists(users', currentUser')
          /\ users'[currentUser'] = [id   |-> currentUser',
                                     name |-> submitted.name,
                                     dob  |-> submitted.dob]]_vars

\* C1 (amended): a successful onboarding submission leaves exactly one
\* profile document with the caller's identity, keyed by that identity; its
\* dob is the submitted date and its name is the submitted name with leading
\* and trailing whitespace removed.
C1_TrimmedValuesStored ==
    [][SubmitSucceeds =>
          /\ DocExists(users', currentUser')
          /\ \A k \in DOMAIN users' : users'[k].id = currentUser' => k = currentUser'
          /\ users'[currentUser'] = [id   |-> currentUser',
                                     name |-> Trim(submitted.name),
                                     dob  |-> submitted.dob]]_vars

\* C1 witness: a padded name was submitted and saved trimmed.
C1_Witness ==
    /\ route = "tabs"
    /\ submits > 0
    /\ name # Trim(name)
    /\ DocExists(users, currentUser)
    /\ users[currentUser] = [id |-> currentUser, name |-> Trim(name), dob |-> dob]

\* The input the claim calls invalid.
InvalidInput(n, d) == Trim(n) = <<>> \/ d = <<>> \/ ~DateRegexTest(d)

\* C7: a submission whose input fails validation issues no sign-in and no
\* profile write, leaves the users collection and the loading flag as they
\* were, and shows an error alert.
C7_ValidationStopsSubmission ==
    [][(submits' # submits /\ InvalidInput(name, dob)) =>
          /\ UNCHANGED <<currentUser, nextUid, users, albums, onbIsLoading>>
          /\ onbPc' = "idle"
          /\ onbAlert' \in {"name", "dob", "format"}]_vars

\* C7 witness: a date with a trailing blank was submitted and refused.
C7_Witness ==
    /\ submits > 0
    /\ onbAlert = "format"
    /\ dob = Date1 \o <<" ">>
    /\ onbPc = "idle"
    /\ ~onbIsLoading

\* C9 (as stated): once a profile document exists it is never deleted and
\* its content never changes, over any sequence of launches, status checks
\* and onboarding submissions.
C9_ProfileNeverChanges ==
    [][\A k \in DOMAIN users : k \in DOMAIN users' /\ users'[k] = users[k]]_vars

====
